---- MODULE Spec2Model ----
(***************************************************************************)
(* The bike-sharing notebook (bike_sharing_demand_solution.ipynb) as a     *)
(* state machine: a Jupyter kernel whose namespace binds names to values   *)
(* and to data frames kept in a heap, a file system holding the CSV files, *)
(* and a position in the list of code cells.                               *)
(*                                                                         *)
(* Numbers.  Measured quantities (temp, atemp, humidity, windspeed) are    *)
(* fixed-point hundredths: 9.84 is 984, the bin edge 10 is 1000.           *)
(* Predictions and counts written to a submission are thousandths:         *)
(* -5.2 is -5200.  NaN of a float column is the integer FNaN, NaN of a     *)
(* categorical column is the string "NaN".                                 *)
(***************************************************************************)
EXTENDS Integers, Sequences, FiniteSets, TLC

VARIABLES
    ns,      \* kernel namespace: bound name -> value (a frame is an object id)
    heap,    \* object id -> data frame
    files,   \* file system: file name -> content (a sequence of CSV records)
    pc,      \* <<k, s>>: k-th code cell, statement s is the next to run
    status,  \* "running", "halted" (Run All stopped at an error) or "done"
    errors,  \* the exceptions raised so far, as <<cell, exception>> pairs
    mode     \* "run_all": an error stops the run; "step": the next cell still runs

vars == <<ns, heap, files, pc, status, errors, mode>>

\* ------------------------------------------------------------------ bounds

\* Longest multi-row batch read from a CSV file.
MaxRows == 2

\* ------------------------------------------------------------- sequences

Range(s) == {s[i] : i \in DOMAIN s}

RECURSIVE SeqsUpTo(_, _)
\* all sequences over S of length 1..n
SeqsUpTo(S, n) ==
    IF n = 0 THEN {}
    ELSE LET shorter == SeqsUpTo(S, n - 1)
         IN  {<<x>> : x \in S} \cup shorter
                \cup {Append(q, x) : q \in shorter, x \in S}

\* --------------------------------------------------------------- numbers

Hundredths(v) == v * 100

FNaN == 0 - 999999999

\* ------------------------------------------------------ calendar (pandas)

\* days of month m of year y
DaysInMonth(y, m) ==
    IF m = 2
    THEN (IF y % 4 = 0 /\ (y % 100 # 0 \/ y % 400 = 0) THEN 29 ELSE 28)
    ELSE IF m \in {4, 6, 9, 11} THEN 30 ELSE 31

\* whether pd.to_datetime accepts the text: it raises on a date or a time of
\* day that does not exist
Parses(text) ==
    /\ text[2] \in 1..12
    /\ text[3] \in 1..DaysInMonth(text[1], text[2])
    /\ text[4] \in 0..23
    /\ text[5] \in 0..59
    /\ text[6] \in 0..59

\* pd.to_datetime on one 'YYYY-MM-DD hh:mm:ss' text, held as its six fields
to_datetime(text) ==
    [year |-> text[1], month |-> text[2], day |-> text[3],
     hour |-> text[4], minute |-> text[5], second |-> text[6]]

\* str(Timestamp): the six fields of 'YYYY-MM-DD hh:mm:ss' again
TimestampStr(ts) ==
    <<ts.year, ts.month, ts.day, ts.hour, ts.minute, ts.second>>

\* days since 1970-01-01 of a proleptic Gregorian date
DaysFromCivil(y, m, d) ==
    LET yy  == IF m <= 2 THEN y - 1 ELSE y
        era == yy \div 400
        yoe == yy - era * 400
        mp  == IF m > 2 THEN m - 3 ELSE m + 9
        doy == (153 * mp + 2) \div 5 + d - 1
        doe == yoe * 365 + yoe \div 4 - yoe \div 100 + doy
    IN  era * 146097 + doe - 719468

\* Series.dt.dayofweek: Monday = 0 ... Sunday = 6 (1970-01-01 was a Thursday)
dt_dayofweek(ts) == (DaysFromCivil(ts.year, ts.month, ts.day) + 3) % 7

\* ---------------------------------------------------------- numpy (floats)

RECURSIVE Expm1Terms(_, _, _)
\* sum of the Taylor terms x^k / k! for k = k..14, in thousandths
Expm1Terms(x, k, term) ==
    IF k > 14 THEN 0
    ELSE LET t == (term * x) \div (k * 1000)
         IN  t + Expm1Terms(x, k + 1, t)

\* np.expm1 on thousandths: exp(x) - 1
expm1(x) == IF x = FNaN THEN FNaN ELSE Expm1Terms(x, 1, 1000)

RECURSIVE Log2Floor(_)
Log2Floor(n) == IF n < 2 THEN 0 ELSE 1 + Log2Floor(n \div 2)

RECURSIVE Pow2(_)
Pow2(k) == IF k = 0 THEN 1 ELSE 2 * Pow2(k - 1)

\* np.log1p of a whole count, in thousandths: ln(1 + c) =
\* k*ln 2 + 2*atanh(z), z = (m - 1)/(m + 1), m = (1 + c)/2^k in [1, 2)
log1p(c) ==
    LET x  == c + 1
        k  == Log2Floor(x)
        p  == Pow2(k)
        z  == ((x - p) * 10000) \div (x + p)
        z2 == (z * z) \div 10000
        z3 == (z * z2) \div 10000
        z5 == (z3 * z2) \div 10000
        z7 == (z5 * z2) \div 10000
        ln == k * 6931 + 2 * (z + z3 \div 3 + z5 \div 5 + z7 \div 7)
    IN  (ln + 5) \div 10

\* ------------------------------------------------------- pandas: Series

\* A Series is [index: row labels, values, dtype]; a DataFrame is
\* [columns: ordered column names, index: row labels, data: column -> values,
\*  dtypes: column -> dtype].

MkSeries(index, values, dtype) ==
    [index |-> index, values |-> values, dtype |-> dtype]

NaNOf(dtype) == IF dtype \in {"int64", "float64"} THEN FNaN ELSE "NaN"

\* position of label l in an index (0 when it is absent)
Pos(index, l) ==
    IF \E i \in DOMAIN index : index[i] = l
    THEN CHOOSE i \in DOMAIN index : index[i] = l
    ELSE 0

\* Series.reindex: the value at each label of index, NaN where s lacks it
Reindex(s, index) ==
    MkSeries(index,
             [i \in DOMAIN index |->
                 IF Pos(s.index, index[i]) = 0 THEN NaNOf(s.dtype)
                 ELSE s.values[Pos(s.index, index[i])]],
             s.dtype)

\* elementwise application, keeping the index
SMap(s, F(_), dtype) ==
    MkSeries(s.index, [i \in DOMAIN s.values |-> F(s.values[i])], dtype)

\* elementwise combination of two Series over the same index
SZip(a, b, F(_, _), dtype) ==
    MkSeries(a.index,
             [i \in DOMAIN a.values |-> F(a.values[i], b.values[i])], dtype)

\* ---------------------------------------------------- pandas: DataFrame

\* df[c]
Col(df, c) == MkSeries(df.index, df.data[c], df.dtypes[c])

\* df[c] = s  (in place in pandas; here the new value of the frame)
SetCol(df, c, s) ==
    LET r == Reindex(s, df.index)
    IN  [columns |-> IF c \in Range(df.columns) THEN df.columns
                     ELSE Append(df.columns, c),
         index   |-> df.index,
         data    |-> [k \in DOMAIN df.data \cup {c} |->
                         IF k = c THEN r.values ELSE df.data[k]],
         dtypes  |-> [k \in DOMAIN df.dtypes \cup {c} |->
                         IF k = c THEN s.dtype ELSE df.dtypes[k]]]

\* df.drop(c, axis=1)
DropCol(df, c) ==
    [columns |-> SelectSeq(df.columns, LAMBDA k : k # c),
     index   |-> df.index,
     data    |-> [k \in DOMAIN df.data \ {c} |-> df.data[k]],
     dtypes  |-> [k \in DOMAIN df.dtypes \ {c} |-> df.dtypes[k]]]

\* df[cols]
SelectCols(df, cols) ==
    [columns |-> cols,
     index   |-> df.index,
     data    |-> [k \in Range(cols) |-> df.data[k]],
     dtypes  |-> [k \in Range(cols) |-> df.dtypes[k]]]

\* row i of a frame as a record over its columns
Row(df, i) == [c \in Range(df.columns) |-> df.data[c][i]]

NRows(df) == Len(df.index)

\* sorted union of two label sequences (labels are naturals)
RECURSIVE SortedSeq(_)
SortedSeq(S) ==
    IF S = {} THEN <<>>
    ELSE LET m == CHOOSE x \in S : \A y \in S : x <= y
         IN  <<m>> \o SortedSeq(S \ {m})

\* pd.DataFrame({'datetime': a, 'count': b}): the two Series are aligned on the
\* union of their indexes, a label missing from one of them giving NaN there
DataFrameOf(a, b) ==
    LET index == SortedSeq(Range(a.index) \cup Range(b.index))
    IN  [columns |-> <<"datetime", "count">>,
         index   |-> index,
         data    |-> [k \in {"datetime", "count"} |->
                         IF k = "datetime" THEN Reindex(a, index).values
                         ELSE Reindex(b, index).values],
         dtypes  |-> [k \in {"datetime", "count"} |->
                         IF k = "datetime" THEN a.dtype ELSE b.dtype]]

\* clip_lower with the floor left out
clip_nothing(v, lower) == v

\* Series.clip(lower=0): NaN stays NaN
clip_lower(v, lower) ==
    IF v = FNaN THEN FNaN ELSE IF v < lower THEN lower ELSE v

\* pd_cut with right=False: bin i is [bins[i], bins[i+1])
pd_cut_left_closed(x, bins, labels) ==
    LET hit == {i \in DOMAIN labels :
                   Hundredths(bins[i]) <= x /\ x < Hundredths(bins[i + 1])}
    IN  IF hit = {} THEN "NaN" ELSE labels[CHOOSE i \in hit : TRUE]

\* pd_cut with include_lowest=True: the first bin also holds bins[1]
pd_cut_include_lowest(x, bins, labels) ==
    LET hit == {i \in DOMAIN labels :
                   /\ x <= Hundredths(bins[i + 1])
                   /\ \/ Hundredths(bins[i]) < x
                      \/ i = 1 /\ Hundredths(bins[1]) = x}
    IN  IF hit = {} THEN "NaN" ELSE labels[CHOOSE i \in hit : TRUE]

\* pd.cut(x, bins, labels) with the defaults right=True, include_lowest=False:
\* bin i is (bins[i], bins[i+1]], a value in no bin gives NaN
pd_cut(x, bins, labels) ==
    LET hit == {i \in DOMAIN labels :
                   Hundredths(bins[i]) < x /\ x <= Hundredths(bins[i + 1])}
    IN  IF hit = {} THEN "NaN" ELSE labels[CHOOSE i \in hit : TRUE]

\* ------------------------------------------- cell 25: feature_engineering

time_of_day(x) ==
    IF 6 <= x /\ x < 12 THEN "morning"
    ELSE IF 12 <= x /\ x < 18 THEN "afternoon"
    ELSE IF 18 <= x /\ x < 22 THEN "evening"
    ELSE "night"

\* is_rush_hour with the weekday test bound to the evening interval only
is_rush_hour_unparenthesised(hour, dayofweek) ==
    IF (hour >= 7 /\ hour <= 9) \/ (hour >= 16 /\ hour <= 19 /\ dayofweek < 5)
    THEN 1 ELSE 0

\* (((hour >= 7) & (hour <= 9) | (hour >= 16) & (hour <= 19)) & (dayofweek < 5)).astype(int)
is_rush_hour(hour, dayofweek) ==
    IF ((hour >= 7 /\ hour <= 9) \/ (hour >= 16 /\ hour <= 19)) /\ dayofweek < 5
    THEN 1 ELSE 0

\* is_weekend with > in place of >=: Saturday is left out
is_weekend_sunday_only(dayofweek) == IF dayofweek > 5 THEN 1 ELSE 0

\* (dayofweek >= 5).astype(int)
is_weekend(dayofweek) == IF dayofweek >= 5 THEN 1 ELSE 0

\* weather.astype(str) + '_' + season.astype(str)
weather_season(weather, season) ==
    ToString(weather) \o "_" \o ToString(season)

temp_bins == <<-20, 0, 10, 20, 30, 50>>
temp_labels == <<"very_cold", "cold", "mild", "warm", "hot">>
humidity_bins == <<0, 25, 50, 75, 100>>
humidity_labels == <<"low", "medium", "high", "very_high">>
windspeed_bins == <<0, 10, 20, 30, 100>>
windspeed_labels == <<"low", "medium", "high", "very_high">>

temp_bin(x) == pd_cut(x, temp_bins, temp_labels)
humidity_bin(x) == pd_cut(x, humidity_bins, humidity_labels)
windspeed_bin(x) == pd_cut(x, windspeed_bins, windspeed_labels)

\* temp * humidity and temp * windspeed (hundredths times hundredths)
product(a, b) == a * b

\* the conversion of the datetime column, skipped when it is datetime64 already
ConvertDatetime(df) ==
    IF df.dtypes["datetime"] # "datetime64[ns]"
    THEN SetCol(df, "datetime",
                SMap(Col(df, "datetime"), to_datetime, "datetime64[ns]"))
    ELSE df

\* df[col] = F(df[a])
Derive1(df, col, a, F(_), dtype) ==
    SetCol(df, col, SMap(Col(df, a), F, dtype))

\* df[col] = F(df[a], df[b])
Derive2(df, col, a, b, F(_, _), dtype) ==
    SetCol(df, col, SZip(Col(df, a), Col(df, b), F, dtype))

DatetimeParts(df) ==
    Derive1(Derive1(Derive1(Derive1(Derive1(df,
        "hour", "datetime", LAMBDA t : t.hour, "int64"),
        "day", "datetime", LAMBDA t : t.day, "int64"),
        "month", "datetime", LAMBDA t : t.month, "int64"),
        "year", "datetime", LAMBDA t : t.year, "int64"),
        "dayofweek", "datetime", dt_dayofweek, "int64")

TimeFlags(df) ==
    Derive1(Derive2(Derive1(df,
        "time_of_day", "hour", time_of_day, "object"),
        "is_rush_hour", "hour", "dayofweek", is_rush_hour, "int64"),
        "is_weekend", "dayofweek", is_weekend, "int64")

\* WeatherSeason that also stores the composite back into the weather column
WeatherSeasonOverwriting(df) ==
    LET d == Derive2(df, "weather_season", "weather", "season",
                     weather_season, "object")
    IN  SetCol(d, "weather", Col(d, "weather_season"))

WeatherSeason(df) ==
    Derive2(df, "weather_season", "weather", "season", weather_season, "object")

Bins(df) ==
    Derive1(Derive1(Derive1(df,
        "temp_bin", "temp", temp_bin, "category"),
        "humidity_bin", "humidity", humidity_bin, "category"),
        "windspeed_bin", "windspeed", windspeed_bin, "category")

RECURSIVE SumTo(_, _)
SumTo(values, i) == IF i = 0 THEN 0 ELSE values[i] + SumTo(values, i - 1)

\* Interactions with a running total (.cumsum()) taken of each product
InteractionsCumulative(df) ==
    LET th == SZip(Col(df, "temp"), Col(df, "humidity"), product, "float64")
        tw == SZip(Col(df, "temp"), Col(df, "windspeed"), product, "float64")
    IN  SetCol(SetCol(df, "temp_humidity",
                      MkSeries(th.index,
                               [i \in DOMAIN th.values |-> SumTo(th.values, i)],
                               "float64")),
               "temp_windspeed",
               MkSeries(tw.index,
                        [i \in DOMAIN tw.values |-> SumTo(tw.values, i)],
                        "float64"))

Interactions(df) ==
    Derive2(Derive2(df,
        "temp_humidity", "temp", "humidity", product, "float64"),
        "temp_windspeed", "temp", "windspeed", product, "float64")

\* the column assignments of feature_engineering, in source order, on its copy
FeatureColumns(df) ==
    Interactions(Bins(WeatherSeason(TimeFlags(DatetimeParts(ConvertDatetime(df))))))

\* ----------------------------------------------------------- the kernel

\* A kernel state K is [ns, heap, files, exc]; exc is "none" or the exception
\* the last statement raised.

Kernel(n, h, f) == [ns |-> n, heap |-> h, files |-> f, exc |-> "none"]

Raise(K, e) == [K EXCEPT !.exc = e]

Bound(K, names) == names \subseteq DOMAIN K.ns

\* name = value
Bind(K, name, v) == [K EXCEPT !.ns = (name :> v) @@ K.ns]

\* name = <a new frame object>
BindNew(K, name, frame) ==
    [K EXCEPT !.heap = Append(K.heap, frame),
              !.ns = (name :> (Len(K.heap) + 1)) @@ K.ns]

\* the frame a name refers to
Obj(K, name) == K.heap[K.ns[name]]

\* in-place change of the frame a name refers to
Mutate(K, name, frame) == [K EXCEPT !.heap[K.ns[name]] = frame]

\* df_copy without the copy: df stays the caller's object
df_alias(K, o) == [K |-> K, id |-> o]

\* df = df.copy(): the object the local name df refers to from then on
df_copy(K, o) == [K |-> [K EXCEPT !.heap = Append(K.heap, K.heap[o])],
                  id |-> Len(K.heap) + 1]

\* the columns feature_engineering reads
feature_engineering_reads ==
    {"datetime", "weather", "season", "temp", "humidity", "windspeed"}

\* the exception the statements of feature_engineering raise on df ("none" when
\* they all run): df['datetime'] and the other column reads raise KeyError on
\* a missing column, pd.to_datetime raises ValueError on a text it cannot parse
FeatureEngineeringRaises(df) ==
    IF "datetime" \notin Range(df.columns) THEN "KeyError"
    ELSE IF /\ df.dtypes["datetime"] # "datetime64[ns]"
            /\ \E i \in DOMAIN df.index : ~Parses(df.data["datetime"][i])
    THEN "ValueError"
    ELSE IF ~(feature_engineering_reads \subseteq Range(df.columns))
    THEN "KeyError"
    ELSE "none"

\* the rows of df at the given positions, in that order
TakeRows(df, pos) ==
    [columns |-> df.columns,
     index   |-> [k \in DOMAIN pos |-> df.index[pos[k]]],
     data    |-> [c \in DOMAIN df.data |->
                     [k \in DOMAIN pos |-> df.data[c][pos[k]]]],
     dtypes  |-> df.dtypes]

\* feature_engineering converting with errors='coerce' and dropping the rows
\* whose timestamp did not parse, instead of raising
feature_engineering_dropping_rows(K, o) ==
    LET c    == df_copy(K, o)
        df   == c.K.heap[c.id]
        keep == SelectSeq([i \in 1..NRows(df) |-> i],
                          LAMBDA i : \/ df.dtypes["datetime"] = "datetime64[ns]"
                                     \/ Parses(df.data["datetime"][i]))
    IN  IF /\ "datetime" \in Range(df.columns)
           /\ feature_engineering_reads \subseteq Range(df.columns)
        THEN [K  |-> [c.K EXCEPT
                         !.heap[c.id] = FeatureColumns(TakeRows(df, keep))],
              id |-> c.id]
        ELSE [K |-> Raise(K, "KeyError"), id |-> 0]

\* feature_engineering(df) called on object o: the kernel afterwards and the
\* object returned; when a statement raises, the local copy is dropped with
\* the call frame and nothing is returned
feature_engineering(K, o) ==
    LET c == df_copy(K, o)
        e == FeatureEngineeringRaises(c.K.heap[c.id])
    IN  IF e # "none" THEN [K |-> Raise(K, e), id |-> 0]
        ELSE [K  |-> [c.K EXCEPT !.heap[c.id] = FeatureColumns(c.K.heap[c.id])],
              id |-> c.id]

\* name = feature_engineering(arg)
CallFeatureEngineering(K, name, arg) ==
    LET r == feature_engineering(K, K.ns[arg])
    IN  IF r.K.exc # "none" THEN r.K ELSE Bind(r.K, name, r.id)

\* ------------------------------------------------------------ CSV files

train_columns ==
    <<"datetime", "season", "holiday", "workingday", "weather", "temp",
      "atemp", "humidity", "windspeed", "casual", "registered", "count">>

test_columns == SubSeq(train_columns, 1, 9)

CsvDtype(c) ==
    IF c = "datetime" THEN "object"
    ELSE IF c \in {"temp", "atemp", "windspeed"} THEN "float64"
    ELSE "int64"

\* pd.read_csv: one row per record, labelled 0, 1, ... in file order
read_csv(content) ==
    [columns |-> content.header,
     index   |-> [i \in DOMAIN content.rows |-> i - 1],
     data    |-> [c \in Range(content.header) |->
                     [i \in DOMAIN content.rows |-> content.rows[i][c]]],
     dtypes  |-> [c \in Range(content.header) |-> CsvDtype(c)]]

\* df.to_csv(path, index=False): the header and one record per row, in row order
to_csv(df) ==
    [header |-> df.columns,
     rows   |-> [i \in 1..NRows(df) |-> Row(df, i)]]

\* Series.astype(str)
astype_str(s) ==
    IF s.dtype = "datetime64[ns]" THEN SMap(s, TimestampStr, "object")
    ELSE MkSeries(s.index, s.values, "object")

\* ------------------------------------------------------ statement helpers

\* a statement that reads `names` and otherwise has effect `result`
Need(K, names, result) ==
    IF Bound(K, names) THEN result ELSE Raise(K, "NameError")

\* name = pd.read_csv(path)
ReadCsv(K, name, path) ==
    Need(K, {"pd", path},
         IF K.ns[path] \in DOMAIN K.files
         THEN BindNew(K, name, read_csv(K.files[K.ns[path]]))
         ELSE Raise(K, "FileNotFoundError"))

\* name['datetime'] = pd.to_datetime(name['datetime'])
ToDatetimeInPlace(K, name) ==
    Need(K, {"pd", name},
         IF "datetime" \notin Range(Obj(K, name).columns)
         THEN Raise(K, "KeyError")
         ELSE IF /\ Obj(K, name).dtypes["datetime"] = "object"
                 /\ \E i \in DOMAIN Obj(K, name).index :
                       ~Parses(Obj(K, name).data["datetime"][i])
         THEN Raise(K, "ValueError")
         ELSE Mutate(K, name,
                SetCol(Obj(K, name), "datetime",
                       SMap(Col(Obj(K, name), "datetime"),
                            LAMBDA t : IF Obj(K, name).dtypes["datetime"] = "object"
                                       THEN to_datetime(t) ELSE t,
                            "datetime64[ns]"))))

\* name[col] = name['datetime'].dt.<field>
DtFieldInPlace(K, name, col, F(_)) ==
    Need(K, {name},
         Mutate(K, name,
                SetCol(Obj(K, name), col,
                       SMap(Col(Obj(K, name), "datetime"), F, "int64"))))

\* name = name.drop('datetime', axis=1)
DropDatetime(K, name) ==
    Need(K, {name},
         IF "datetime" \in Range(Obj(K, name).columns)
         THEN BindNew(K, name, DropCol(Obj(K, name), "datetime"))
         ELSE Raise(K, "KeyError"))

categorical_features ==
    <<"season", "holiday", "workingday", "weather", "time_of_day",
      "temp_bin", "humidity_bin", "windspeed_bin", "weather_season">>

RECURSIVE AsCategory(_, _, _)
\* df[feature] = df[feature].astype('category') for the features from k on
AsCategory(df, feats, k) ==
    IF k > Len(feats) THEN df
    ELSE AsCategory(
            SetCol(df, feats[k],
                   MkSeries(df.index, df.data[feats[k]], "category")),
            feats, k + 1)

\* the loop of cell 28 over both frames
CategoricalLoop(K) ==
    Need(K, {"categorical_features", "train_fe", "test_fe"},
         IF /\ Range(K.ns["categorical_features"])
                  \subseteq Range(Obj(K, "train_fe").columns)
            /\ Range(K.ns["categorical_features"])
                  \subseteq Range(Obj(K, "test_fe").columns)
         THEN LET K1 == Mutate(K, "train_fe",
                               AsCategory(Obj(K, "train_fe"),
                                          K.ns["categorical_features"], 1))
              IN  Mutate(K1, "test_fe",
                         AsCategory(Obj(K1, "test_fe"),
                                    K.ns["categorical_features"], 1))
         ELSE Raise(K, "KeyError"))

\* train_fe['count_log'] = np.log1p(train_fe['count'])
CountLog(K) ==
    Need(K, {"np", "train_fe"},
         IF "count" \in Range(Obj(K, "train_fe").columns)
         THEN Mutate(K, "train_fe",
                     SetCol(Obj(K, "train_fe"), "count_log",
                            SMap(Col(Obj(K, "train_fe"), "count"),
                                 log1p, "float64")))
         ELSE Raise(K, "KeyError"))

\* the exclusion list without count_log
target_columns_without_log == {"casual", "registered", "count"}

target_columns == {"casual", "registered", "count", "count_log"}

\* features = [col for col in train_fe.columns if col not in [...]]
Features(K) ==
    Need(K, {"train_fe"},
         Bind(K, "features",
              SelectSeq(Obj(K, "train_fe").columns,
                        LAMBDA c : c \notin target_columns)))

\* name = TabularDataset(frame[features + extra])
Dataset(K, name, frame, extra) ==
    Need(K, {"TabularDataset", frame, "features"},
         IF Range(K.ns["features"] \o extra) \subseteq Range(Obj(K, frame).columns)
         THEN BindNew(K, name,
                      SelectCols(Obj(K, frame), K.ns["features"] \o extra))
         ELSE Raise(K, "KeyError"))

\* name = TabularPredictor(label=label, ...)
Predictor(K, name, label) ==
    Need(K, {"TabularPredictor"},
         Bind(K, name, [label |-> label, fitted |-> FALSE, features |-> <<>>]))

\* name.fit(train_data=data, ...)
Fit(K, name, data) ==
    Need(K, {name, data},
         IF K.ns[name].label \in Range(Obj(K, data).columns)
         THEN Bind(K, name,
                   [K.ns[name] EXCEPT
                       !.fitted = TRUE,
                       !.features = SelectSeq(Obj(K, data).columns,
                                       LAMBDA c : c # K.ns[name].label)])
         ELSE Raise(K, "KeyError"))

\* board = name.leaderboard()
Leaderboard(K, board, name) ==
    Need(K, {name},
         IF K.ns[name].fitted THEN Bind(K, board, "leaderboard")
         ELSE Raise(K, "AssertionError"))

\* Predict answering under a fresh index 1..n instead of the index of test_data
PredictReindexed(K, target, name, inp) ==
    Need(K, {name, "test_data"},
         Bind(K, target,
              MkSeries([i \in DOMAIN inp |-> i], inp, "float64")))

\* target = name.predict(test_data): one prediction per row of test_data,
\* under its index; the values are the engine's (inp)
Predict(K, target, name, inp) ==
    Need(K, {name, "test_data"},
         IF ~K.ns[name].fitted THEN Raise(K, "AssertionError")
         ELSE IF ~(Range(K.ns[name].features)
                      \subseteq Range(Obj(K, "test_data").columns))
         THEN Raise(K, "KeyError")
         ELSE Bind(K, target,
                   MkSeries(Obj(K, "test_data").index, inp, "float64")))

\* Expm1Series with the inverse transform left out
Expm1Omitted(K, target, source) ==
    Need(K, {"np", source}, Bind(K, target, K.ns[source]))

\* target = np.expm1(source)
Expm1Series(K, target, source) ==
    Need(K, {"np", source},
         Bind(K, target, SMap(K.ns[source], expm1, "float64")))

\* name = pd.DataFrame({'datetime': test['datetime'].astype(str), 'count': preds})
Submission(K, name, preds) ==
    Need(K, {"pd", "test", preds},
         IF "datetime" \notin Range(Obj(K, "test").columns)
         THEN Raise(K, "KeyError")
         ELSE BindNew(K, name,
                 DataFrameOf(astype_str(Col(Obj(K, "test"), "datetime")),
                             K.ns[preds])))

\* name['count'] = name['count'].clip(lower=0)
ClipCount(K, name) ==
    Need(K, {name},
         Mutate(K, name,
                SetCol(Obj(K, name), "count",
                       SMap(Col(Obj(K, name), "count"),
                            LAMBDA v : clip_lower(v, 0), "float64"))))

\* path = data_dir / file
PathUnder(K, path, file) == Need(K, {"data_dir"}, Bind(K, path, file))

\* name.to_csv(path, index=False)
ToCsv(K, name, path) ==
    Need(K, {name, path},
         [K EXCEPT !.files = (K.ns[path] :> to_csv(Obj(K, name))) @@ K.files])

\* a statement that only shows or plots what it reads
Display(K, names) == Need(K, names, K)

\* ------------------------------------------------------------ the cells

\* the code cells that hold statements, by their position in the notebook
CodeCells ==
    <<4, 6, 7, 9, 10, 13, 15, 18, 19, 20, 21, 22, 25, 26, 28, 30, 31, 33,
      35, 36, 37, 39, 40, 41, 43, 44, 46, 47>>

\* the cells that build and write a submission
SubmissionCells == <<33, 37, 41, 47>>

imports ==
    {"np", "pd", "plt", "sns", "os", "warnings", "Path", "TabularDataset",
     "TabularPredictor"}

RECURSIVE BindAll(_, _, _)
BindAll(K, names, v) ==
    IF names = {} THEN K
    ELSE LET n == CHOOSE x \in names : TRUE
         IN  BindAll(Bind(K, n, v), names \ {n}, v)

\* cell 30 does not compile: the call opened by TabularPredictor( is never closed
Compiles(c) == c # 30

\* cells 33, 37 and 41: predict, (inverse transform,) frame, clip, path, write
SubmissionCell(K, s, inp, tag, transform) ==
    LET preds  == tag \o "_predictions"
        scaled == IF transform THEN preds \o "_original_scale" ELSE preds
        frame  == tag \o "_submission"
        path   == tag \o "_submission_path"
    IN  CASE s = 1 -> Predict(K, preds, tag \o "_predictor", inp)
          [] s = 2 -> IF transform THEN Expm1Series(K, scaled, preds) ELSE K
          [] s = 3 -> Submission(K, frame, scaled)
          [] s = 4 -> ClipCount(K, frame)
          [] s = 5 -> PathUnder(K, path, frame \o ".csv")
          [] s = 6 -> ToCsv(K, frame, path)
          [] s = 7 -> Display(K, {path, frame})

\* statement s of cell c on kernel K; inp is what the regression engine
\* answers when the statement asks it for predictions
Stmt(c, s, K, inp) ==
    CASE c = 4 -> BindAll(K, imports, "module")
      [] c = 6 -> Need(K, {"Path"}, Bind(K, "data_dir", "data"))
      [] c = 7 ->
            ( CASE s = 1 -> PathUnder(K, "train_path", "train.csv")
                [] s = 2 -> PathUnder(K, "test_path", "test.csv")
                [] s = 3 -> Display(K, {"train_path", "test_path"}) )
      [] c = 9 ->
            ( CASE s = 1 -> ReadCsv(K, "train", "train_path")
                [] s = 2 -> ReadCsv(K, "test", "test_path")
                [] s = 3 -> Display(K, {"train"}) )
      [] c = 10 -> Display(K, {"test"})
      [] c = 13 -> Display(K, {"train"})
      [] c = 15 -> Display(K, {"plt", "sns", "np", "train"})
      [] c = 18 ->
            ( CASE s = 1 -> ToDatetimeInPlace(K, "train")
                [] s = 2 -> ToDatetimeInPlace(K, "test")
                [] s = 3 -> DtFieldInPlace(K, "train", "hour", LAMBDA t : t.hour)
                [] s = 4 -> DtFieldInPlace(K, "test", "hour", LAMBDA t : t.hour)
                [] s = 5 -> Display(K, {"plt", "sns", "train"}) )
      [] c = 19 ->
            ( CASE s = 1 -> DtFieldInPlace(K, "train", "dayofweek", dt_dayofweek)
                [] s = 2 -> DtFieldInPlace(K, "test", "dayofweek", dt_dayofweek)
                [] s = 3 -> Display(K, {"plt", "sns", "train"}) )
      [] c \in {20, 21, 22} -> Display(K, {"plt", "sns", "train"})
      [] c = 25 -> Bind(K, "feature_engineering", "function")
      [] c = 26 ->
            ( CASE s = 1 -> Need(K, {"feature_engineering", "train", "pd"},
                                 CallFeatureEngineering(K, "train_fe", "train"))
                [] s = 2 -> Need(K, {"feature_engineering", "test", "pd"},
                                 CallFeatureEngineering(K, "test_fe", "test"))
                [] s = 3 -> Display(K, {"train_fe"}) )
      [] c = 28 ->
            ( CASE s = 1 -> DropDatetime(K, "train_fe")
                [] s = 2 -> DropDatetime(K, "test_fe")
                [] s = 3 -> Bind(K, "categorical_features", categorical_features)
                [] s = 4 -> CategoricalLoop(K)
                [] s = 5 -> CountLog(K)
                [] s = 6 -> Display(K, {"train_fe"}) )
      [] c = 30 ->
            ( CASE s = 1 -> Features(K)
                [] s = 2 -> Need(K, {"Path"}, Bind(K, "models_dir", "models"))
                [] s = 3 -> Dataset(K, "train_data", "train_fe", <<"count">>)
                [] s = 4 -> Need(K, {"models_dir"},
                                 Predictor(K, "initial_predictor", "count"))
                [] s = 5 -> Fit(K, "initial_predictor", "train_data") )
      [] c = 31 -> Leaderboard(K, "initial_leaderboard", "initial_predictor")
      [] c = 33 ->
            IF s = 1 THEN Dataset(K, "test_data", "test_fe", <<>>)
            ELSE SubmissionCell(K, IF s = 2 THEN 1 ELSE s, inp, "initial", FALSE)
      [] c = 35 ->
            ( CASE s = 1 -> Dataset(K, "train_data_log", "train_fe", <<"count_log">>)
                [] s = 2 -> Predictor(K, "log_predictor", "count_log")
                [] s = 3 -> Fit(K, "log_predictor", "train_data_log") )
      [] c = 36 -> Leaderboard(K, "log_leaderboard", "log_predictor")
      [] c = 37 -> SubmissionCell(K, s, inp, "log", TRUE)
      [] c = 39 ->
            ( CASE s = 1 -> Predictor(K, "advanced_predictor", "count_log")
                [] s = 2 -> Fit(K, "advanced_predictor", "train_data_log") )
      [] c = 40 -> Leaderboard(K, "advanced_leaderboard", "advanced_predictor")
      [] c = 41 -> SubmissionCell(K, s, inp, "advanced", TRUE)
      [] c = 43 -> Need(K, {"advanced_predictor", "test_data"},
                        Bind(K, "feature_importance", "importance"))
      [] c = 44 -> Display(K, {"plt", "feature_importance"})
      [] c = 46 -> Display(K, {"initial_leaderboard", "log_leaderboard",
                               "advanced_leaderboard"})
      [] c = 47 ->
            ( CASE s = 1 -> Need(K, {"advanced_submission"},
                                 BindNew(K, "final_submission",
                                         Obj(K, "advanced_submission")))
                [] s = 2 -> PathUnder(K, "final_submission_path",
                                      "final_submission.csv")
                [] s = 3 -> ToCsv(K, "final_submission", "final_submission_path")
                [] s = 4 -> Display(K, {"final_submission_path",
                                        "final_submission"}) )

\* number of statements of cell c
NStmts(c) ==
    CASE c \in {4, 6, 10, 13, 15, 20, 21, 22, 25, 31, 36, 40, 43, 44, 46} -> 1
      [] c = 39 -> 2
      [] c \in {7, 9, 19, 26, 35} -> 3
      [] c = 47 -> 4
      [] c \in {18, 30} -> 5
      [] c = 28 -> 6
      [] c \in {33, 37, 41} -> 7

\* whether statement s of cell c asks the engine for predictions
AsksEngine(c, s) == (c = 33 /\ s = 2) \/ (c \in {37, 41} /\ s = 1)

\* ------------------------------------------------------------ execution

RECURSIVE ExecFrom(_, _, _, _)
\* statements s.. of cell c in order, up to the first one that raises
ExecFrom(c, s, K, inp) ==
    IF s > NStmts(c) THEN K
    ELSE LET r == Stmt(c, s, K, inp)
         IN  IF r.exc # "none" THEN r ELSE ExecFrom(c, s + 1, r, inp)

\* running cell c: it is compiled as a whole first, then its statements run
ExecCell(c, K, inp) ==
    IF Compiles(c) THEN ExecFrom(c, 1, K, inp) ELSE Raise(K, "SyntaxError")

\* the predictions a fitted engine may return, on the scale of its label
PredValues(label) ==
    IF label = "count" THEN {-5200, 0, 42700} ELSE {-1000, 2000}

\* what the engine may answer during cell c
EngineAnswers(c, K) ==
    LET name == IF c = 33 THEN "initial_predictor"
                ELSE IF c = 37 THEN "log_predictor" ELSE "advanced_predictor"
    IN  IF c \in {33, 37, 41} /\ Bound(K, {name, "test_fe"})
        THEN [1..NRows(Obj(K, "test_fe")) -> PredValues(K.ns[name].label)]
        ELSE {<<>>}

\* ---------------------------------------------------------------- inputs

Row9(ts, season, weather, temp, humidity, windspeed) ==
    [datetime |-> ts, season |-> season, holiday |-> 0, workingday |-> 0,
     weather |-> weather, temp |-> temp, atemp |-> temp + 456,
     humidity |-> humidity, windspeed |-> windspeed]

\* a training record: the nine fields and casual + registered = count
Row12(r, casual, registered) ==
    [c \in Range(train_columns) |->
        IF c = "casual" THEN casual
        ELSE IF c = "registered" THEN registered
        ELSE IF c = "count" THEN casual + registered
        ELSE r[c]]

TimestampTexts ==
    {<<2011, 1, d, h, 0, 0>> : d \in 3..9, h \in 0..23}
        \cup {<<2011, 1, 1, 0, 0, 0>>, <<2012, 2, 29, 8, 0, 0>>,
              <<2012, 12, 19, 17, 0, 0>>}

TempValues ==
    {-2000, -1999, 0, 1, 984, 1000, 1001, 2000, 2001, 3000, 3001, 4100,
     5000, 5001}

HumidityValues == {0, 100, 2500, 2501, 5000, 5001, 7500, 7501, 8100, 10000}

WindspeedValues ==
    {0, 1, 600, 1000, 1001, 2000, 2001, 3000, 3001, 5700, 10000}

\* season and weather codes: 1..4 are the enumerated domain, 0 and 5 lie outside
CodeValues == 0..5

\* scoring records: the record of 2011-01-01 00:00 with one field varied at a time
WideRows ==
    {Row9(ts, 1, 1, 984, 8100, 600) : ts \in TimestampTexts}
        \cup {Row9(<<2011, 1, 1, 0, 0, 0>>, 1, 1, t, 8100, 600) : t \in TempValues}
        \cup {Row9(<<2011, 1, 1, 0, 0, 0>>, 1, 1, 984, h, 600) : h \in HumidityValues}
        \cup {Row9(<<2011, 1, 1, 0, 0, 0>>, 1, 1, 984, 8100, w) : w \in WindspeedValues}
        \cup {Row9(<<2011, 1, 1, 0, 0, 0>>, s, w, 984, 8100, 600) :
                 s \in CodeValues, w \in CodeValues}

\* the records of multi-row batches
CoreRows ==
    {Row9(<<2011, 1, 7, 8, 0, 0>>, 1, 2, 1000, 2500, 0),
     Row9(<<2011, 1, 1, 0, 0, 0>>, 1, 1, 984, 8100, 600),
     Row9(<<2011, 1, 4, 17, 0, 0>>, 3, 1, 3050, 5001, 3000)}

Injective(q) == \A i, j \in DOMAIN q : q[i] = q[j] => i = j

\* batches of distinct records, at most MaxRows long
Batches(S) == {q \in SeqsUpTo(S, MaxRows) : Injective(q)}

TestBatches == {<<r>> : r \in WideRows} \cup Batches(CoreRows)

TrainRows ==
    {Row12(Row9(<<2011, 1, 1, 0, 0, 0>>, 1, 1, 984, 8100, 600), 3, 13),
     Row12(Row9(<<2011, 1, 4, 17, 0, 0>>, 3, 1, 3050, 5001, 3000), 0, 0)}

TrainBatches == Batches(TrainRows)

CsvFiles(train, test) ==
    ("train.csv" :> [header |-> train_columns, rows |-> train])
        @@ ("test.csv" :> [header |-> test_columns, rows |-> test])

\* ----------------------------------------------- the notebook, top to bottom

K0 == Kernel(ns, heap, files)

Init ==
    /\ ns = <<>>
    /\ heap = <<>>
    /\ \/ files = <<>>
       \/ \E train \in TrainBatches, test \in TestBatches :
             files = CsvFiles(train, test)
    /\ pc = <<1, 1>>
    /\ status = "running"
    /\ errors = {}
    /\ mode \in {"run_all", "step"}

\* where the run goes after the cell at position k ended with exception exc
Advance(k, exc, last) ==
    IF exc # "none" /\ mode = "run_all"
    THEN status' = "halted" /\ pc' = pc
    ELSE IF k = last
    THEN status' = "done" /\ pc' = pc
    ELSE status' = "running" /\ pc' = <<k + 1, 1>>

\* the kernel runs code cell c as a whole
RunCell(c) ==
    /\ status = "running"
    /\ CodeCells[pc[1]] = c
    /\ \E inp \in EngineAnswers(c, K0) :
          LET r == ExecCell(c, K0, inp)
          IN  /\ ns' = r.ns
              /\ heap' = r.heap
              /\ files' = r.files
              /\ errors' = IF r.exc = "none" THEN errors
                           ELSE errors \cup {<<c, r.exc>>}
              /\ Advance(pc[1], r.exc, Len(CodeCells))
    /\ UNCHANGED mode

Cell04_Imports == RunCell(4)
Cell06_DataDir == RunCell(6)
Cell07_Paths == RunCell(7)
Cell09_Load == RunCell(9)
Cell10_ShowTest == RunCell(10)
Cell13_Describe == RunCell(13)
Cell15_PlotTarget == RunCell(15)
Cell18_Hour == RunCell(18)
Cell19_DayOfWeek == RunCell(19)
Cell20_PlotSeason == RunCell(20)
Cell21_PlotWeather == RunCell(21)
Cell22_Correlation == RunCell(22)
Cell25_DefFeatureEngineering == RunCell(25)
Cell26_ApplyFeatureEngineering == RunCell(26)
Cell28_Prepare == RunCell(28)
Cell30_TrainInitial == RunCell(30)
Cell31_InitialLeaderboard == RunCell(31)
Cell33_InitialSubmission == RunCell(33)
Cell35_TrainLog == RunCell(35)
Cell36_LogLeaderboard == RunCell(36)
Cell37_LogSubmission == RunCell(37)
Cell39_TrainAdvanced == RunCell(39)
Cell40_AdvancedLeaderboard == RunCell(40)
Cell41_AdvancedSubmission == RunCell(41)
Cell43_FeatureImportance == RunCell(43)
Cell44_PlotImportance == RunCell(44)
Cell46_Compare == RunCell(46)
Cell47_FinalSubmission == RunCell(47)

Next ==
    \/ Cell04_Imports
    \/ Cell06_DataDir
    \/ Cell07_Paths
    \/ Cell09_Load
    \/ Cell10_ShowTest
    \/ Cell13_Describe
    \/ Cell15_PlotTarget
    \/ Cell18_Hour
    \/ Cell19_DayOfWeek
    \/ Cell20_PlotSeason
    \/ Cell21_PlotWeather
    \/ Cell22_Correlation
    \/ Cell25_DefFeatureEngineering
    \/ Cell26_ApplyFeatureEngineering
    \/ Cell28_Prepare
    \/ Cell30_TrainInitial
    \/ Cell31_InitialLeaderboard
    \/ Cell33_InitialSubmission
    \/ Cell35_TrainLog
    \/ Cell36_LogLeaderboard
    \/ Cell37_LogSubmission
    \/ Cell39_TrainAdvanced
    \/ Cell40_AdvancedLeaderboard
    \/ Cell41_AdvancedSubmission
    \/ Cell43_FeatureImportance
    \/ Cell44_PlotImportance
    \/ Cell46_Compare
    \/ Cell47_FinalSubmission

Spec == Init /\ [][Next]_vars

\* ------------------------------------ the submission cells, by statement

\* the cells that bind what the submission cells read
TrainingCells == <<4, 6, 7, 9, 18, 19, 25, 26, 28, 30, 31, 35, 36, 39, 40>>

RECURSIVE Prelude(_, _, _)
\* the statements of the given cells, run in order from cell number k on
Prelude(K, cells, k) ==
    IF K.exc # "none" \/ k > Len(cells) THEN K
    ELSE Prelude(ExecFrom(cells[k], 1, K, <<>>), cells, k + 1)

CellPos(c) == CHOOSE k \in DOMAIN CodeCells : CodeCells[k] = c

\* the kernel in which the statements of the training cells have run, about to
\* run the first submission cell
InitSubmit ==
    /\ \E train \in {<<r>> : r \in TrainRows}, test \in Batches(CoreRows) :
          LET K == Prelude(Kernel(<<>>, <<>>, CsvFiles(train, test)),
                           TrainingCells, 1)
          IN  /\ ns = K.ns
              /\ heap = K.heap
              /\ files = K.files
    /\ pc = <<CellPos(33), 1>>
    /\ status = "running"
    /\ errors = {}
    /\ mode = "run_all"

\* the position after statement s of the submission cell at position k
AfterStmt(k, s) ==
    IF s < NStmts(CodeCells[k]) THEN <<k, s + 1>>
    ELSE LET later == {j \in DOMAIN CodeCells :
                          j > k /\ CodeCells[j] \in Range(SubmissionCells)}
         IN  IF later = {} THEN <<k, s>>
             ELSE <<CHOOSE j \in later : \A i \in later : j <= i, 1>>

\* the kernel runs the next statement of submission cell c
SubmitStep(c) ==
    /\ status = "running"
    /\ CodeCells[pc[1]] = c
    /\ \E inp \in IF AsksEngine(c, pc[2]) THEN EngineAnswers(c, K0) ELSE {<<>>} :
          LET r == Stmt(c, pc[2], K0, inp)
          IN  /\ ns' = r.ns
              /\ heap' = r.heap
              /\ files' = r.files
              /\ errors' = IF r.exc = "none" THEN errors
                           ELSE errors \cup {<<c, r.exc>>}
              /\ IF r.exc # "none"
                 THEN status' = "halted" /\ pc' = pc
                 ELSE /\ pc' = AfterStmt(pc[1], pc[2])
                      /\ status' = IF AfterStmt(pc[1], pc[2]) = pc
                                   THEN "done" ELSE "running"
    /\ UNCHANGED mode

InitialSubmission == SubmitStep(33)
LogSubmission == SubmitStep(37)
AdvancedSubmission == SubmitStep(41)
FinalSubmission == SubmitStep(47)

NextSubmit ==
    \/ InitialSubmission
    \/ LogSubmission
    \/ AdvancedSubmission
    \/ FinalSubmission

SpecSubmit == InitSubmit /\ [][NextSubmit]_vars

\* ------------- feature_engineering and the submission statements, on their own

\* a record whose timestamp text is not a date (30 February)
UnparsableRow == Row9(<<2011, 2, 30, 0, 0, 0>>, 1, 1, 984, 8100, 600)

\* a scoring file of the given records without column c
FileWithout(c, rows) ==
    LET header == SelectSeq(test_columns, LAMBDA k : k # c)
    IN  [header |-> header,
         rows   |-> [i \in DOMAIN rows |->
                        [k \in Range(header) |-> rows[i][k]]]]

\* the scoring files the calls are made on: whole batches, batches with a
\* record whose timestamp does not parse, and files that lack a column
CallFiles ==
    {[header |-> test_columns, rows |-> b] :
        b \in Batches(CoreRows \cup {UnparsableRow})}
      \cup {FileWithout(c, b) :
               c \in {"datetime", "weather"}, b \in {<<r>> : r \in CoreRows}}

\* the predictions handed to the submission statements: a Series of up to
\* MaxRows values labelled 0, 1, ..., whatever the length of the scoring file
CallPredictions ==
    UNION {{MkSeries([i \in 1..m |-> i - 1], v, "float64") :
               v \in [1..m -> PredValues("count")]} : m \in 0..MaxRows}

\* the statements that set the calls up, as <<cell, statement>>
CallSetup == <<<<4, 1>>, <<6, 1>>, <<7, 2>>, <<9, 2>>, <<25, 1>>>>

RECURSIVE RunStmts(_, _, _)
\* the given statements in order from the k-th on, up to the first that raises
RunStmts(K, stmts, k) ==
    IF K.exc # "none" \/ k > Len(stmts) THEN K
    ELSE RunStmts(Stmt(stmts[k][1], stmts[k][2], K, <<>>), stmts, k + 1)

\* the kernel with the imports, the paths, the scoring file read into test,
\* feature_engineering defined and the predictions bound
CallKernel(file, preds) ==
    Bind(RunStmts(Kernel(<<>>, <<>>, "test.csv" :> file), CallSetup, 1),
         "initial_predictions", preds)

\* pc counts the calls made: <<calls of feature_engineering, runs of the
\* submission statements>>
InitCalls ==
    /\ \E file \in CallFiles, preds \in CallPredictions :
          LET K == CallKernel(file, preds)
          IN  /\ ns = K.ns
              /\ heap = K.heap
              /\ files = K.files
    /\ pc = <<0, 0>>
    /\ status = "running"
    /\ errors = {}
    /\ mode = "step"

\* the kernel and the exceptions after a call that left kernel r
AfterCall(c, r) ==
    /\ ns' = r.ns
    /\ heap' = r.heap
    /\ files' = r.files
    /\ errors' = IF r.exc = "none" THEN errors ELSE errors \cup {<<c, r.exc>>}
    /\ UNCHANGED <<status, mode>>

\* test_fe = feature_engineering(test)
EnrichScoringSet ==
    /\ pc[1] = 0
    /\ AfterCall(26, Stmt(26, 2, K0, <<>>))
    /\ pc' = <<1, pc[2]>>

\* feature_engineering applied to its own output
EnrichAgain ==
    /\ pc[1] = 1
    /\ "test_fe" \in DOMAIN ns
    /\ AfterCall(26, CallFeatureEngineering(K0, "test_fe_again", "test_fe"))
    /\ pc' = <<2, pc[2]>>

\* the statements of cell 33 from the construction of the frame on: frame,
\* clip, path, to_csv, display
FormatSubmission ==
    /\ pc[2] = 0
    /\ AfterCall(33, ExecFrom(33, 3, K0, <<>>))
    /\ pc' = <<pc[1], 1>>

NextCalls ==
    \/ EnrichScoringSet
    \/ EnrichAgain
    \/ FormatSubmission

SpecCalls == InitCalls /\ [][NextCalls]_vars

\* ================================================================ claims

SubmissionFiles ==
    {"initial_submission.csv", "log_submission.csv",
     "advanced_submission.csv", "final_submission.csv"}

Max0(p) == IF p > 0 THEN p ELSE 0

\* the name of the predictions handed to the frame of iteration tag
Handed(tag) ==
    IF tag = "initial" THEN "initial_predictions"
    ELSE tag \o "_predictions_original_scale"

Iterations == {"initial", "log", "advanced"}

Written(tag) == (tag \o "_submission.csv") \in DOMAIN files

FileOf(tag) == files[tag \o "_submission.csv"]

\* C1: in each iteration, record i of the written submission file has the
\* count max(0, p), p being prediction i handed to the submission frame, and
\* no record of any submission file has a negative count.
C1_CountIsMaxZeroPrediction ==
    /\ \A tag \in Iterations :
          Written(tag) =>
             /\ Len(FileOf(tag).rows) = Len(ns[Handed(tag)].values)
             /\ \A i \in DOMAIN FileOf(tag).rows :
                   FileOf(tag).rows[i]["count"] = Max0(ns[Handed(tag)].values[i])
    /\ \A f \in SubmissionFiles \cap DOMAIN files :
          \A i \in DOMAIN files[f].rows : files[f].rows[i]["count"] >= 0

\* a negative prediction was handed over and its record was written with count 0
C1_Witness ==
    /\ Written("log")
    /\ \E i \in DOMAIN FileOf("log").rows :
          /\ ns[Handed("log")].values[i] < 0
          /\ FileOf("log").rows[i]["count"] = 0
    /\ Written("initial")
    /\ \E i \in DOMAIN FileOf("initial").rows :
          /\ ns[Handed("initial")].values[i] = -5200
          /\ FileOf("initial").rows[i]["count"] = 0

\* C2: with train.csv and test.csv present, a run that has ended went through
\* every cell without an error and left all four submission files written.
C2_RunWritesAllSubmissions ==
    ({"train.csv", "test.csv"} \subseteq DOMAIN files /\ status # "running")
        => /\ status = "done"
           /\ errors = {}
           /\ SubmissionFiles \subseteq DOMAIN files

FrameOf(tag) == heap[ns[tag \o "_submission"]]

\* whether the clip statement (statement 4) of cell c has run
Clipped(c) ==
    \/ pc[1] > CellPos(c)
    \/ pc[1] = CellPos(c) /\ pc[2] > 4

CellOf(tag) ==
    IF tag = "initial" THEN 33 ELSE IF tag = "log" THEN 37 ELSE 41

\* the count the frame of iteration tag must hold for engine prediction p
Expected(tag, p) ==
    LET v == IF tag = "initial" THEN p ELSE expm1(p)
    IN  IF Clipped(CellOf(tag)) THEN Max0(v) ELSE v

\* C3: the frame of the log and of the advanced iteration holds expm1 of the
\* engine's predictions, applied once, from its construction on (so before the
\* clip and before the file is written); the frame of the initial iteration
\* holds the engine's predictions as they are until they are clipped.
C3_InverseTransformOnceBeforeClip ==
    \A tag \in Iterations :
       /\ (tag \o "_submission") \in DOMAIN ns =>
             \A i \in DOMAIN FrameOf(tag).data["count"] :
                FrameOf(tag).data["count"][i]
                   = Expected(tag, ns[tag \o "_predictions"].values[i])
       /\ Written(tag) =>
             /\ Clipped(CellOf(tag))
             /\ \A i \in DOMAIN FileOf(tag).rows :
                   FileOf(tag).rows[i]["count"]
                      = Expected(tag, ns[tag \o "_predictions"].values[i])

\* the log frame is about to be clipped and holds the negative expm1(-1.0), and
\* the initial frame went to its clip holding the raw -5.2
C3_Witness ==
    /\ pc = <<CellPos(37), 4>>
    /\ \E i \in DOMAIN FrameOf("log").data["count"] :
          /\ ns["log_predictions"].values[i] = -1000
          /\ FrameOf("log").data["count"][i] = expm1(-1000)
          /\ FrameOf("log").data["count"][i] < 0
    /\ \E i \in DOMAIN ns["initial_predictions"].values :
          ns["initial_predictions"].values[i] = -5200

\* the prediction of iteration tag for a row, on the count scale, clipped
CountFor(tag, p) == Max0(IF tag = "initial" THEN p ELSE expm1(p))

\* C5: a written submission file has one record per row of test.csv, record i
\* carrying the timestamp of row i and the clipped prediction the engine gave
\* for row i.
C5_OneRecordPerRowInOrder ==
    \A tag \in Iterations :
       Written(tag) =>
          /\ Len(FileOf(tag).rows) = Len(files["test.csv"].rows)
          /\ FileOf(tag).header = <<"datetime", "count">>
          /\ \A i \in DOMAIN FileOf(tag).rows :
                /\ FileOf(tag).rows[i]["datetime"]
                      = files["test.csv"].rows[i]["datetime"]
                /\ FileOf(tag).rows[i]["count"]
                      = CountFor(tag, ns[tag \o "_predictions"].values[i])

\* a written file of two records whose timestamps are not in time order and
\* whose counts differ
C5_Witness ==
    /\ Written("advanced")
    /\ Len(FileOf("advanced").rows) = 2
    /\ FileOf("advanced").rows[1]["datetime"] = <<2011, 1, 7, 8, 0, 0>>
    /\ FileOf("advanced").rows[2]["datetime"] = <<2011, 1, 1, 0, 0, 0>>
    /\ FileOf("advanced").rows[1]["count"] = 0
    /\ FileOf("advanced").rows[2]["count"] = expm1(2000)

\* the frames of the heap that have all of the given columns
FramesWith(cols) == {o \in DOMAIN heap : cols \subseteq Range(heap[o].columns)}

DerivedColumns ==
    {"hour", "day", "month", "year", "dayofweek", "time_of_day",
     "is_rush_hour", "is_weekend", "weather_season", "temp_bin",
     "humidity_bin", "windspeed_bin", "temp_humidity", "temp_windspeed"}

\* the enriched frames and the CSV file each was made from
Enriched ==
    {e \in {[frame |-> "train_fe", file |-> "train.csv"],
            [frame |-> "test_fe", file |-> "test.csv"]} :
        e.frame \in DOMAIN ns}

SameRaw(r1, r2) == \A c \in Range(test_columns) : r1[c] = r2[c]

\* C4: an enriched frame has one row per input record, in input order (row i
\* carries the raw fields of record i), and its derived fields depend on
\* record i alone: two records with the same raw fields, in whatever batch and
\* at whatever position, get the same derived fields.
C4_RowWiseSameLengthSameOrder ==
    /\ \A e \in Enriched :
          LET df   == Obj(K0, e.frame)
              rows == files[e.file].rows
          IN  /\ NRows(df) = Len(rows)
              /\ DerivedColumns \subseteq Range(df.columns)
              /\ \A i \in DOMAIN rows :
                    /\ \A c \in DOMAIN rows[i] \ {"datetime"} :
                          df.data[c][i] = rows[i][c]
                    /\ "datetime" \in Range(df.columns) =>
                          TimestampStr(df.data["datetime"][i]) = rows[i]["datetime"]
    /\ \A e1, e2 \in Enriched :
          \A i \in DOMAIN files[e1.file].rows, j \in DOMAIN files[e2.file].rows :
             SameRaw(files[e1.file].rows[i], files[e2.file].rows[j]) =>
                \A c \in DerivedColumns :
                   Obj(K0, e1.frame).data[c][i] = Obj(K0, e2.frame).data[c][j]

\* both frames are enriched, the scoring batch has two rows, and its second
\* record also is the first record of the training batch, behind another one
C4_Witness ==
    /\ {"train_fe", "test_fe"} \subseteq DOMAIN ns
    /\ NRows(Obj(K0, "test_fe")) = 2
    /\ NRows(Obj(K0, "train_fe")) = 2
    /\ SameRaw(files["test.csv"].rows[2], files["train.csv"].rows[1])
    /\ ~SameRaw(files["test.csv"].rows[1], files["train.csv"].rows[2])
    /\ Obj(K0, "test_fe").data["hour"][1] # Obj(K0, "test_fe").data["hour"][2]

\* C6: is_rush_hour is 1 exactly for the records with dayofweek < 5 and hour
\* in 7..9 or in 16..19, and 0 for every other record.
C6_RushHourIffWeekdayPeak ==
    \A o \in FramesWith({"is_rush_hour", "hour", "dayofweek"}) :
       \A i \in DOMAIN heap[o].index :
          LET h == heap[o].data["hour"][i]
              d == heap[o].data["dayofweek"][i]
              f == heap[o].data["is_rush_hour"][i]
          IN  /\ f \in {0, 1}
              /\ f = 1 <=> (d < 5 /\ ((7 <= h /\ h <= 9) \/ (16 <= h /\ h <= 19)))
              /\ (h = 7 /\ d = 4) => f = 1
              /\ (h = 7 /\ d = 5) => f = 0

\* the record of Friday 2011-01-07 07:00 was enriched: hour 7, dayofweek 4, flag 1
C6_Witness ==
    \E o \in FramesWith({"is_rush_hour", "hour", "dayofweek"}) :
       \E i \in DOMAIN heap[o].index :
          /\ heap[o].data["hour"][i] = 7
          /\ heap[o].data["dayofweek"][i] = 4
          /\ heap[o].data["is_rush_hour"][i] = 1

BinColumns ==
    {[col |-> "temp", bin |-> "temp_bin", bins |-> temp_bins,
      labels |-> temp_labels],
     [col |-> "humidity", bin |-> "humidity_bin", bins |-> humidity_bins,
      labels |-> humidity_labels],
     [col |-> "windspeed", bin |-> "windspeed_bin", bins |-> windspeed_bins,
      labels |-> windspeed_labels]}

BinnedFrames == FramesWith({"temp_bin", "humidity_bin", "windspeed_bin"})

\* C7: a record with humidity in 0..100 has a humidity_bin among the four
\* labels, and a record with windspeed in 0..100 has a windspeed_bin among them.
C7_BinNeverMissing ==
    \A o \in BinnedFrames :
       \A i \in DOMAIN heap[o].index :
          /\ (0 <= heap[o].data["humidity"][i]
                 /\ heap[o].data["humidity"][i] <= Hundredths(100))
                => heap[o].data["humidity_bin"][i] \in Range(humidity_labels)
          /\ (0 <= heap[o].data["windspeed"][i]
                 /\ heap[o].data["windspeed"][i] <= Hundredths(100))
                => heap[o].data["windspeed_bin"][i] \in Range(windspeed_labels)

\* C8: in each of the three binned columns a value equal to a boundary other
\* than the first gets the label of the bin below that boundary, so an internal
\* boundary goes to the lower bin (temp 10 is cold) and the last boundary to the
\* last bin (temp 50 is hot).
C8_BoundaryGoesToLowerBin ==
    \A o \in BinnedFrames :
       \A i \in DOMAIN heap[o].index :
          /\ \A b \in BinColumns :
                \A k \in 2..Len(b.bins) :
                   heap[o].data[b.col][i] = Hundredths(b.bins[k])
                      => heap[o].data[b.bin][i] = b.labels[k - 1]
          /\ heap[o].data["temp"][i] = 1000 => heap[o].data["temp_bin"][i] = "cold"
          /\ heap[o].data["temp"][i] = 5000 => heap[o].data["temp_bin"][i] = "hot"
          /\ heap[o].data["humidity"][i] = 10000
                => heap[o].data["humidity_bin"][i] = "very_high"

\* a record with temp exactly 10 was binned, as cold
C8_Witness ==
    \E o \in BinnedFrames :
       \E i \in DOMAIN heap[o].index :
          /\ heap[o].data["temp"][i] = 1000
          /\ heap[o].data["temp_bin"][i] = "cold"

\* C9 as stated: every bin but the last is [lower, upper), the last is
\* [lower, upper].
C9_BinsRightOpen ==
    \A o \in BinnedFrames :
       \A i \in DOMAIN heap[o].index :
          \A b \in BinColumns :
             \A k \in DOMAIN b.labels :
                LET x  == heap[o].data[b.col][i]
                    lo == Hundredths(b.bins[k])
                    hi == Hundredths(b.bins[k + 1])
                IN  (lo <= x /\ (x < hi \/ (k = Len(b.labels) /\ x = hi)))
                       <=> heap[o].data[b.bin][i] = b.labels[k]

\* C9 amended: every bin, the first and the last included, is (lower, upper]:
\* a record has the label of bin k exactly when lower < value <= upper, and has
\* no label when its value is in no such interval.
C9_BinsLeftOpenRightClosed ==
    \A o \in BinnedFrames :
       \A i \in DOMAIN heap[o].index :
          \A b \in BinColumns :
             LET x == heap[o].data[b.col][i]
                 In(k) == Hundredths(b.bins[k]) < x /\ x <= Hundredths(b.bins[k + 1])
             IN  /\ \A k \in DOMAIN b.labels :
                       In(k) <=> heap[o].data[b.bin][i] = b.labels[k]
                 /\ (\A k \in DOMAIN b.labels : ~In(k))
                       <=> heap[o].data[b.bin][i] = "NaN"

\* a record with humidity exactly 50, the upper edge of medium and the lower
\* edge of high, was binned as medium
C9_Witness ==
    \E o \in BinnedFrames :
       \E i \in DOMAIN heap[o].index :
          /\ heap[o].data["humidity"][i] = 5000
          /\ heap[o].data["humidity_bin"][i] = "medium"

OutOfDomain(r) == r["season"] \notin 1..4 \/ r["weather"] \notin 1..4

\* C10: when a record of an input file has a season or a weather outside 1..4,
\* the cell that enriches the files ends with RangeError, and no frame holds a
\* weather_season built for such a record.
C10_OutOfDomainRaisesRangeError ==
    /\ ( /\ pc[1] > CellPos(26)
         /\ \E f \in {"train.csv", "test.csv"} \cap DOMAIN files :
               \E i \in DOMAIN files[f].rows : OutOfDomain(files[f].rows[i]) )
          => <<26, "RangeError">> \in errors
    /\ \A o \in FramesWith({"weather_season"}) :
          \A i \in DOMAIN heap[o].index : ~OutOfDomain(Row(heap[o], i))

WeekendFrames == FramesWith({"is_weekend", "is_rush_hour", "hour", "dayofweek"})

\* C15: is_weekend is 1 exactly for the records whose dayofweek is 5 or 6
\* (Monday being 0) and 0 for every other record, and no record has is_weekend
\* and is_rush_hour both 1.
C15_WeekendIffSaturdayOrSunday ==
    \A o \in WeekendFrames :
       \A i \in DOMAIN heap[o].index :
          LET d == heap[o].data["dayofweek"][i]
              w == heap[o].data["is_weekend"][i]
          IN  /\ d \in 0..6
              /\ w \in {0, 1}
              /\ w = 1 <=> d \in {5, 6}
              /\ ~(w = 1 /\ heap[o].data["is_rush_hour"][i] = 1)

\* the record of Saturday 2011-01-08 08:00 was enriched: dayofweek 5, weekend,
\* and not rush hour although the hour is a peak hour
C15_Witness ==
    \E o \in WeekendFrames :
       \E i \in DOMAIN heap[o].index :
          /\ heap[o].data["dayofweek"][i] = 5
          /\ heap[o].data["hour"][i] = 8
          /\ heap[o].data["is_weekend"][i] = 1
          /\ heap[o].data["is_rush_hour"][i] = 0

\* the columns that are the target or are computed from it
TargetDerived == {"casual", "registered", "count", "count_log"}

Predictors == {"initial_predictor", "log_predictor", "advanced_predictor"}

\* the training sets and the predictors fitted on each
TrainingSets ==
    {[data |-> "train_data", label |-> "count",
      fitted |-> {"initial_predictor"}],
     [data |-> "train_data_log", label |-> "count_log",
      fitted |-> {"log_predictor", "advanced_predictor"}]}

\* C16: the features a predictor was fitted on contain none of casual,
\* registered, count and count_log; a training set carries these features and,
\* of the target columns, its own label only (count for the initial predictor,
\* count_log for the log and the advanced predictor); the scoring set handed to
\* predict carries exactly the features the predictors were fitted on.
C16_FeaturesExcludeTargets ==
    /\ \A p \in Predictors \cap DOMAIN ns :
          ns[p].fitted => Range(ns[p].features) \cap TargetDerived = {}
    /\ \A t \in TrainingSets :
          t.data \in DOMAIN ns =>
             /\ Range(Obj(K0, t.data).columns) \cap TargetDerived = {t.label}
             /\ \A p \in t.fitted \cap DOMAIN ns :
                   ns[p].fitted =>
                      /\ ns[p].label = t.label
                      /\ Obj(K0, t.data).columns = ns[p].features \o <<t.label>>
    /\ "test_data" \in DOMAIN ns =>
          /\ Range(Obj(K0, "test_data").columns) \cap TargetDerived = {}
          /\ \A p \in Predictors \cap DOMAIN ns :
                ns[p].fitted => Obj(K0, "test_data").columns = ns[p].features

\* the three predictors are fitted, on features that include derived columns,
\* and each has been asked for the predictions of the scoring set
C16_Witness ==
    /\ Predictors \subseteq DOMAIN ns
    /\ \A p \in Predictors :
          /\ ns[p].fitted
          /\ {"hour", "temp_humidity", "season"} \subseteq Range(ns[p].features)
    /\ {"train_data", "train_data_log", "test_data", "initial_predictions",
        "log_predictions", "advanced_predictions"} \subseteq DOMAIN ns
    /\ "count_log" \in Range(Obj(K0, "train_fe").columns)

\* the submission statements have run
Formatted == pc[2] = 1

\* the number of timestamps of the scoring set
NTimestamps == NRows(Obj(K0, "test"))

\* the number of predictions handed to the submission statements
NPredictions == Len(ns["initial_predictions"].values)

Failed(c) == \E e \in errors : e[1] = c

\* feature_engineering has been called on the scoring set
EnrichCalled == pc[1] >= 1

\* the records of the scoring file
ScoringRows == files["test.csv"].rows

\* C12: a call of feature_engineering that raises returns nothing: no enriched
\* frame is bound and none is left in the heap; a call that returns has
\* enriched every record, row i of the result being record i of the input.
\* Submission statements that raise write no file; a file that is written
\* carries every timestamp of the scoring set and every prediction, each at
\* its own position.
C12_NoPartialSuccess ==
    /\ EnrichCalled =>
          IF Failed(26)
          THEN /\ "test_fe" \notin DOMAIN ns
               /\ FramesWith({"weather_season"}) = {}
               /\ FramesWith({"hour"}) = {}
          ELSE /\ "test_fe" \in DOMAIN ns
               /\ NRows(Obj(K0, "test_fe")) = Len(ScoringRows)
               /\ \A i \in DOMAIN ScoringRows :
                     /\ TimestampStr(Obj(K0, "test_fe").data["datetime"][i])
                           = ScoringRows[i]["datetime"]
                     /\ \A c \in DOMAIN ScoringRows[i] \ {"datetime"} :
                           Obj(K0, "test_fe").data[c][i] = ScoringRows[i][c]
    /\ Formatted =>
          IF Failed(33)
          THEN DOMAIN files = {"test.csv"}
          ELSE /\ "initial_submission.csv" \in DOMAIN files
               /\ \A i \in DOMAIN ScoringRows :
                     files["initial_submission.csv"].rows[i]["datetime"]
                        = ScoringRows[i]["datetime"]
               /\ \A i \in DOMAIN ns["initial_predictions"].values :
                     files["initial_submission.csv"].rows[i]["count"]
                        = Max0(ns["initial_predictions"].values[i])
    /\ ~Formatted => DOMAIN files = {"test.csv"}

\* feature_engineering was called on two records, the second with a timestamp
\* that is no date: the call raised and nothing of the first record came back
C12_Witness ==
    /\ EnrichCalled
    /\ Len(ScoringRows) = 2
    /\ Parses(ScoringRows[1]["datetime"])
    /\ ~Parses(ScoringRows[2]["datetime"])
    /\ <<26, "ValueError">> \in errors
    /\ "test_fe" \notin DOMAIN ns

\* the names bound to a batch that has been passed to feature_engineering
PassedBatches == {"test", "test_fe"}

\* C13: a batch passed to feature_engineering is left as it was: the scoring
\* set still is what was read from the file, with the columns of the file and
\* no derived column, and no step changes the frame a passed batch is bound
\* to; the derived columns are in the returned frame (another object) only.
C13_InputBatchUnchanged ==
    /\ [](/\ Obj(K0, "test") = read_csv(files["test.csv"])
          /\ Range(Obj(K0, "test").columns) \cap DerivedColumns = {}
          /\ "test_fe" \in DOMAIN ns =>
                /\ ns["test_fe"] # ns["test"]
                /\ DerivedColumns \subseteq Range(Obj(K0, "test_fe").columns))
    /\ [][\A n \in PassedBatches \cap DOMAIN ns :
             /\ n \in DOMAIN ns'
             /\ heap'[ns'[n]] = heap[ns[n]]]_vars

\* feature_engineering has returned twice, for the scoring set (whose
\* timestamps were texts, converted in the copy) and for its own output, and
\* the scoring set still holds the texts
C13_Witness ==
    /\ pc[1] = 2
    /\ {"test_fe", "test_fe_again"} \subseteq DOMAIN ns
    /\ Obj(K0, "test").dtypes["datetime"] = "object"
    /\ Obj(K0, "test_fe").dtypes["datetime"] = "datetime64[ns]"
    /\ NRows(Obj(K0, "test")) = 2

\* C14: feature_engineering applied to its own output returns, and the frame
\* it returns has in every derived column, row by row, the value the first
\* application put there (and the same raw fields and columns).
C14_EnrichIdempotentOnDerived ==
    /\ pc[1] = 2 => "test_fe_again" \in DOMAIN ns
    /\ "test_fe_again" \in DOMAIN ns =>
          /\ Obj(K0, "test_fe_again").columns = Obj(K0, "test_fe").columns
          /\ Obj(K0, "test_fe_again").index = Obj(K0, "test_fe").index
          /\ \A c \in DerivedColumns :
                Obj(K0, "test_fe_again").data[c] = Obj(K0, "test_fe").data[c]

\* the second application has returned for a batch of two records that differ
\* in their derived columns, one of them with a missing windspeed_bin
C14_Witness ==
    /\ "test_fe_again" \in DOMAIN ns
    /\ NRows(Obj(K0, "test_fe_again")) = 2
    /\ Obj(K0, "test_fe_again").data["weather_season"][1]
          # Obj(K0, "test_fe_again").data["weather_season"][2]
    /\ Obj(K0, "test_fe_again").data["hour"][1] = 8
    /\ Obj(K0, "test_fe_again").data["windspeed_bin"][1] = "NaN"
    /\ Obj(K0, "test_fe_again").data["temp_humidity"][1] = 1000 * 2500

====
